---- MODULE Spec2Model ----
(***************************************************************************)
(* Two Inkscape extensions of mightyscape-1.X:                             *)
(*   bounding_box/bounding_box.py  (BoundingBox.effect, drawBBox)          *)
(*   vpype_tools/vpypetools.py     (vpypetools.effect, convertPath)        *)
(* Each extension run is one process: the host parses the options, loads   *)
(* the document and the selection, and calls effect() once.                *)
(***************************************************************************)
EXTENDS Integers, Sequences, FiniteSets, TLC

VARIABLES
    \* ---- bounding_box.py
    bbPc,        \* "start" before effect(), "done" after it returned
    layer,       \* children of the current layer (self.svg.get_current_layer())
    layer0,      \* history: the layer as it was when effect() was called
    selected,    \* self.svg.selected: indices into layer, in selection order
    options,     \* self.options: offset, box, corner_radius, circle, split
    msgs,        \* what inkex.errormsg has printed
    \* ---- vpypetools.py
    vpPc,        \* the stage effect() is about to run, or how it ended
    parent,      \* the document tree: node -> its parent (getparent())
    tag,         \* node -> its tag
    xform,       \* the nodes that carry a transform attribute
    baked,       \* the nodes whose geometry had a transform fused into it
    doc0,        \* history: parent, xform and baked when effect() was called
    vsel,        \* self.svg.selected, in selection order
    vopts,       \* self.options
    applyTransformAvailable,
    nodesToConvert,
    lc,          \* the vpype.LineCollection: one line per sampled path
    vbbox,       \* bbox: the nodes whose bounding boxes were added up
    vdoc,        \* the vpype.Document, or NoDoc
    tempFile,    \* whether <input>.vpype.svg exists on disk
    group,       \* the attributes and children of newGroup
    curSel,      \* self.svg.selection after selection.set()
    vmsgs,       \* what inkex.errormsg / inkex.utils.debug have printed
    stages       \* history: the stages of lines 153-193 that were entered

bbVars == <<bbPc, layer, layer0, selected, options, msgs>>
vpVars == <<vpPc, parent, tag, xform, baked, doc0, vsel, vopts,
            applyTransformAvailable, nodesToConvert, lc, vbbox, vdoc, tempFile,
            group, curSel, vmsgs, stages>>
vars == <<bbVars, vpVars>>

----------------------------------------------------------------------------
(* Numbers.  The options and the bounding boxes are Python floats.  They   *)
(* are modelled in fixed point: the integer v stands for v / Unit.  Sums,  *)
(* differences, doublings and halvings of the values used here are exact,  *)
(* as they are in binary floating point; math.sqrt is not.                 *)

Unit == 16

\* n whole units, and n quarters of a unit
U(n) == n * Unit
Q(n) == n * (Unit \div 4)

Abs(v) == IF v < 0 THEN -v ELSE v

DigitChars == <<"0", "1", "2", "3", "4", "5", "6", "7", "8", "9">>

RECURSIVE Digits(_)
\* the decimal digits of a natural number, most significant first
Digits(n) == IF n < 10 THEN <<DigitChars[n + 1]>>
             ELSE Append(Digits(n \div 10), DigitChars[(n % 10) + 1])

RECURSIVE StripZeros(_)
\* a fraction's digits without trailing zeros, but never empty: ".0"
StripZeros(s) == IF Len(s) > 1 /\ s[Len(s)] = "0"
                 THEN StripZeros(SubSeq(s, 1, Len(s) - 1))
                 ELSE s

RECURSIVE PadLeft(_, _)
PadLeft(s, n) == IF Len(s) >= n THEN s ELSE PadLeft(<<"0">> \o s, n)

\* str(float): sign, integer part, ".", the shortest fraction that reads back
\* (1/16 = 0.0625, so a multiple of 1/16 has at most four fraction digits)
FloatStr(v) ==
    LET a  == Abs(v)
        ip == a \div Unit
        fp == ((a % Unit) * 10000) \div Unit
    IN (IF v < 0 THEN <<"-">> ELSE <<>>)
       \o Digits(ip) \o <<".">> \o StripZeros(PadLeft(Digits(fp), 4))

----------------------------------------------------------------------------
(* bounding_box.py                                                         *)

\* inkex.Style({...}) rendered by str()
RedStroke == "stroke:#ff0000;stroke-width:1;fill:none"

\* math.sqrt on the fixed-point grid: x is a sum of two products, so it is in
\* units of 1/Unit^2 and its root is in units of 1/Unit.  The result is the
\* representable number nearest to the true root (IEEE-754 sqrt is correctly
\* rounded); representable roots are the even multiples of 1/Unit, which
\* keeps the halving of line 35 exact, as it is in binary floating point.
Sqrt(x) ==
    LET k == CHOOSE i \in 0..x : (2 * i) * (2 * i) <= x
                                 /\ (2 * i + 2) * (2 * i + 2) > x
    IN IF x < (2 * k + 1) * (2 * k + 1) THEN 2 * k ELSE 2 * k + 2

\* inkex BoundingBox.center_x / center_y: minimum + size / 2
CenterX(bbox) == bbox.left + bbox.width \div 2
CenterY(bbox) == bbox.top + bbox.height \div 2

\* line 34, the radius the source has commented out
drawBBoxInscribed(bbox, o) ==
    (IF o.box
     THEN <<[tag |-> "rect", style |-> RedStroke,
             x |-> FloatStr(bbox.left - o.offset),
             y |-> FloatStr(bbox.top - o.offset),
             width |-> FloatStr(bbox.width + 2 * o.offset),
             height |-> FloatStr(bbox.height + 2 * o.offset),
             ry |-> FloatStr(o.corner_radius),
             rx |-> FloatStr(o.corner_radius)]>>
     ELSE <<>>)
    \o
    (IF o.circle
     THEN <<[tag |-> "circle", style |-> RedStroke,
             cx |-> FloatStr(CenterX(bbox)),
             cy |-> FloatStr(CenterY(bbox)),
             r |-> FloatStr(bbox.width \div 2 + o.offset)]>>
     ELSE <<>>)

\* the offset added once instead of on both sides
drawBBoxOneSided(bbox, o) ==
    (IF o.box
     THEN <<[tag |-> "rect", style |-> RedStroke,
             x |-> FloatStr(bbox.left - o.offset),
             y |-> FloatStr(bbox.top - o.offset),
             width |-> FloatStr(bbox.width + o.offset),
             height |-> FloatStr(bbox.height + o.offset),
             ry |-> FloatStr(o.corner_radius),
             rx |-> FloatStr(o.corner_radius)]>>
     ELSE <<>>)
    \o
    (IF o.circle
     THEN <<[tag |-> "circle", style |-> RedStroke,
             cx |-> FloatStr(CenterX(bbox)),
             cy |-> FloatStr(CenterY(bbox)),
             r |-> FloatStr(Sqrt((bbox.width + 2 * o.offset) * (bbox.width + 2 * o.offset)
                                 + (bbox.height + 2 * o.offset) * (bbox.height + 2 * o.offset))
                            \div 2)]>>
     ELSE <<>>)

\* BoundingBox.drawBBox: the elements it appends to the current layer
drawBBox(bbox, o) ==
    (IF o.box
     THEN <<[tag |-> "rect", style |-> RedStroke,
             x |-> FloatStr(bbox.left - o.offset),
             y |-> FloatStr(bbox.top - o.offset),
             width |-> FloatStr(bbox.width + 2 * o.offset),
             height |-> FloatStr(bbox.height + 2 * o.offset),
             ry |-> FloatStr(o.corner_radius),
             rx |-> FloatStr(o.corner_radius)]>>
     ELSE <<>>)
    \o
    (IF o.circle
     THEN <<[tag |-> "circle", style |-> RedStroke,
             cx |-> FloatStr(CenterX(bbox)),
             cy |-> FloatStr(CenterY(bbox)),
             r |-> FloatStr(Sqrt((bbox.width + 2 * o.offset) * (bbox.width + 2 * o.offset)
                                 + (bbox.height + 2 * o.offset) * (bbox.height + 2 * o.offset))
                            \div 2)]>>
     ELSE <<>>)

Min(a, b) == IF a < b THEN a ELSE b
Max(a, b) == IF a > b THEN a ELSE b

\* BoundingBox + BoundingBox: the smallest box around both
BBoxUnion(a, b) ==
    LET l == Min(a.left, b.left)
        t == Min(a.top, b.top)
        r == Max(a.left + a.width, b.left + b.width)
        m == Max(a.top + a.height, b.top + b.height)
    IN [left |-> l, top |-> t, width |-> r - l, height |-> m - t]

RECURSIVE SelectionBBox(_, _)
\* self.svg.selection.bounding_box(): the union of the selected elements' boxes
SelectionBBox(els, sel) ==
    IF Len(sel) = 1 THEN els[sel[1]].bbox
    ELSE BBoxUnion(els[sel[1]].bbox, SelectionBBox(els, Tail(sel)))

RECURSIVE DrawEach(_, _, _)
\* lines 42-43: drawBBox for every selected element, in selection order
DrawEach(els, sel, o) ==
    IF sel = <<>> THEN <<>>
    ELSE drawBBox(els[sel[1]].bbox, o) \o DrawEach(els, Tail(sel), o)

NoSelectionMsg == "Please select some objects first."

\* split read the other way round
EffectResultSplitInverted(els, sel, o) ==
    IF Len(sel) > 0
    THEN [appended |-> IF o.split = TRUE
                       THEN DrawEach(els, sel, o)
                       ELSE drawBBox(SelectionBBox(els, sel), o),
          errors |-> <<>>]
    ELSE [appended |-> <<>>, errors |-> <<NoSelectionMsg>>]

\* the empty selection not reported
EffectResultSilent(els, sel, o) ==
    IF Len(sel) > 0
    THEN [appended |-> IF o.split = FALSE
                       THEN DrawEach(els, sel, o)
                       ELSE drawBBox(SelectionBBox(els, sel), o),
          errors |-> <<>>]
    ELSE [appended |-> <<>>, errors |-> <<>>]

\* BoundingBox.effect: what it appends to the layer and what it reports
EffectResult(els, sel, o) ==
    IF Len(sel) > 0
    THEN [appended |-> IF o.split = FALSE
                       THEN DrawEach(els, sel, o)
                       ELSE drawBBox(SelectionBBox(els, sel), o),
          errors |-> <<>>]
    ELSE [appended |-> <<>>, errors |-> <<NoSelectionMsg>>]

\* ---- the inputs of a run
MaxElems == 2

ElemBoxes ==
    { [left |-> 0, top |-> 0, width |-> U(10), height |-> U(10)],
      [left |-> U(1), top |-> U(2), width |-> U(3), height |-> U(4)],
      [left |-> -Q(6), top |-> Q(2), width |-> U(1), height |-> U(1)] }

Offsets == {0, U(2), -Q(2)}
CornerRadii == {0, U(1)}

Elements == [tag : {"path"}, bbox : ElemBoxes]

Layers == UNION {[1..n -> Elements] : n \in 0..MaxElems}

\* the sequences of distinct indices 1..n
Selections(n) ==
    {s \in UNION {[1..k -> 1..n] : k \in 0..n} :
        \A i, j \in 1..Len(s) : i # j => s[i] # s[j]}

Options == [offset : Offsets, box : BOOLEAN, corner_radius : CornerRadii,
            circle : BOOLEAN, split : BOOLEAN]

BBInit ==
    /\ bbPc = "start"
    /\ layer \in Layers
    /\ layer0 = layer
    /\ selected \in Selections(Len(layer))
    /\ options \in Options
    /\ msgs = <<>>
    \* the bridge does not run
    /\ vpPc = "off"
    /\ parent = <<>> /\ tag = <<>>
    /\ xform = {} /\ baked = {}
    /\ doc0 = [parent |-> <<>>, xform |-> {}, baked |-> {}]
    /\ vsel = <<>> /\ curSel = <<>>
    /\ vopts = [linesort_no_flip |-> FALSE, apply_transformations |-> FALSE,
                output_show |-> FALSE, output_stats |-> FALSE,
                output_trajectories |-> FALSE, keep_selection |-> TRUE]
    /\ applyTransformAvailable = FALSE
    /\ nodesToConvert = <<>> /\ lc = <<>> /\ vbbox = {}
    /\ vdoc = [lines |-> 0, command |-> <<>>]
    /\ tempFile = "absent"
    /\ group = [style |-> "", children |-> 0, translate |-> {}, id |-> ""]
    /\ vmsgs = <<>> /\ stages = <<>>

\* effect() on a non-empty selection
BBEffectDraw ==
    /\ bbPc = "start"
    /\ Len(selected) > 0
    /\ layer' = layer \o EffectResult(layer, selected, options).appended
    /\ msgs' = msgs \o EffectResult(layer, selected, options).errors
    /\ bbPc' = "done"
    /\ UNCHANGED <<layer0, selected, options>>
    /\ UNCHANGED vpVars

\* effect() on an empty selection
BBEffectEmpty ==
    /\ bbPc = "start"
    /\ Len(selected) = 0
    /\ layer' = layer \o EffectResult(layer, selected, options).appended
    /\ msgs' = msgs \o EffectResult(layer, selected, options).errors
    /\ bbPc' = "done"
    /\ UNCHANGED <<layer0, selected, options>>
    /\ UNCHANGED vpVars

BBNext == BBEffectDraw \/ BBEffectEmpty

----------------------------------------------------------------------------
(* vpypetools.py                                                           *)
(* The document is a tree of path elements and groups under the root.  A   *)
(* path's geometry is kept only as far as effect() branches on it: every   *)
(* path node the walk meets adds one line to the line collection.  What    *)
(* the libraries and the inkscape binary compute (the order linesort       *)
(* returns, the lengths, the converted geometry) is left open; where such  *)
(* a call can raise or return in more than one way, each way is a branch.  *)

MaxNodes == 3

Root == 0
DocNodes == 1..MaxNodes
\* the inkex.Group() that line 169 adds to the root
NewGroup == MaxNodes + 1
AllNodes == Root..NewGroup
\* what getparent() returns for the root and for a detached node
None == -1

Tags == {"path", "g"}

TagOf(n) == IF n = Root THEN "svg" ELSE IF n = NewGroup THEN "g" ELSE tag[n]

RECURSIVE SortedSeq(_)
\* a set of nodes in document order
SortedSeq(S) == IF S = {} THEN <<>>
                ELSE LET m == CHOOSE x \in S : \A y \in S : x <= y
                     IN <<m>> \o SortedSeq(S \ {m})

\* node.getchildren()
getchildren(n) == SortedSeq({c \in AllNodes : parent[c] = n})

RECURSIVE IsWithin(_, _, _)
\* n is a or a descendant of a
IsWithin(a, n, par) == n = a \/ (par[n] # None /\ IsWithin(a, par[n], par))

\* applytransform.ApplyTransform().recursiveFuseTransform(n): every transform
\* attribute in the subtree of n is removed and fused into the geometry of
\* the nodes it applied to
recursiveFuseTransform(n, par, xf, bk) ==
    LET sub == {m \in AllNodes : IsWithin(n, m, par)}
        hit == {m \in sub : \E a \in sub \cap xf : IsWithin(a, m, par)}
    IN [xform |-> xf \ sub, baked |-> bk \cup hit]

RECURSIVE convertPath(_), convertEach(_)
\* convertPath(node): the path nodes it appends to nodesToConvert, in order
convertPath(n) ==
    (IF TagOf(n) = "path" THEN <<n>> ELSE <<>>) \o convertEach(getchildren(n))
\* lines 88-89 and 102-103: convertPath for each node of a list
convertEach(ns) ==
    IF ns = <<>> THEN <<>> ELSE convertPath(ns[1]) \o convertEach(Tail(ns))

Range(s) == {s[i] : i \in 1..Len(s)}

\* the test of line 110 left out
NoPathsFoundNever(lines) == FALSE

\* line 110
NoPathsFound(lines) == Len(lines) = 0

SkipMsg == "Calling 'Apply Transformations' extension failed. Maybe the extension is not installed. You can download it from official InkScape Gallery. Skipping this step"
NoPathsMsg == "Selection does not contain any paths. Try to cast your objects to paths using CTRL + SHIFT + C or strokes to paths using CTRL + ALT+ C"
\* the six lines of statistics, without their numbers
StatsMsgs == <<"Total tooling length before vpype conversion: ",
               "Total traveling length before vpype conversion: ",
               "Total tooling length after vpype conversion: ",
               "Total traveling length after vpype conversion: ",
               "Total tooling length optimized: ",
               "Total traveling length optimized: ">>
CliMsgs == <<"Inkscape returned the following output when trying to run the vpype object to path back-conversion:",
             "cli_output">>
GroupStyle == "stroke:#000000;stroke-width:1px;stroke-miterlimit:4;stroke-dasharray:none;stroke-opacity:1;fill:none"

NoDoc == [lines |-> 0, command |-> <<>>]
NoGroup == [style |-> "", children |-> 0, translate |-> {}, id |-> ""]

\* the temp file deleted and the sources removed in the other order
ThenRemoveFirst(stage) ==
    CASE stage = "optimize" -> "write"
      [] stage = "write" -> "invoke"
      [] stage = "invoke" -> "splice"
      [] stage = "splice" -> "reflatten"
      [] stage = "reflatten" -> "remove"
      [] stage = "remove" -> "delete"
      [] stage = "delete" -> "done"

\* the stage that follows a stage in effect()
Then(stage) ==
    CASE stage = "optimize" -> "write"
      [] stage = "write" -> "invoke"
      [] stage = "invoke" -> "splice"
      [] stage = "splice" -> "reflatten"
      [] stage = "reflatten" -> "delete"
      [] stage = "delete" -> "remove"
      [] stage = "remove" -> "done"

\* the temp file left where it is
RemoveFileSkipped(file) == file

\* os.remove(output_file)
RemoveFile(file) == "absent"

RECURSIVE RemoveEach(_, _)
\* lines 192-193: node.getparent().remove(node) for each collected node; a node
\* that has no parent any more raises AttributeError and ends the loop
RemoveEach(ns, par) ==
    IF ns = <<>> THEN [parent |-> par, ok |-> TRUE]
    ELSE IF par[ns[1]] = None THEN [parent |-> par, ok |-> FALSE]
    ELSE RemoveEach(Tail(ns), [par EXCEPT ![ns[1]] = None])

VOptions == [linesort_no_flip : BOOLEAN, apply_transformations : BOOLEAN,
             output_show : BOOLEAN, output_stats : BOOLEAN,
             output_trajectories : BOOLEAN, keep_selection : BOOLEAN]

RECURSIVE Encloses(_, _, _)
\* a is m or an ancestor of m in the tree p
Encloses(a, m, p) == m = a \/ (m # Root /\ p[m] < m /\ Encloses(a, p[m], p))

\* the documents: the nodes are numbered in document order, so a node's parent
\* is the root or a group that is still open when the node is read
InDocumentOrder(p) ==
    \A n \in DocNodes :
        \/ p[n] = Root
        \/ /\ n > 1
           /\ p[n] \in DocNodes
           /\ TagOf(p[n]) = "g"
           /\ Encloses(p[n], n - 1, p)

VPInit ==
    /\ vpPc = "collect"
    /\ tag \in [DocNodes -> Tags]
    /\ \E p \in [DocNodes -> {Root} \cup DocNodes] :
          /\ InDocumentOrder(p)
          /\ parent = [n \in AllNodes |-> IF n \in DocNodes THEN p[n] ELSE None]
    /\ xform \in {{}, {1}}
    /\ baked = {}
    /\ doc0 = [parent |-> parent, xform |-> xform, baked |-> baked]
    /\ vsel \in {SortedSeq(S) : S \in SUBSET DocNodes}
    /\ vopts \in VOptions
    /\ applyTransformAvailable = FALSE
    /\ nodesToConvert = <<>>
    /\ lc = <<>>
    /\ vbbox = {}
    /\ vdoc = NoDoc
    /\ tempFile = "absent"
    /\ group = NoGroup
    /\ curSel = vsel
    /\ vmsgs = <<>>
    /\ stages = <<>>
    \* the drawer does not run
    /\ bbPc = "off" /\ layer = <<>> /\ layer0 = <<>> /\ selected = <<>>
    /\ options = [offset |-> 0, box |-> FALSE, corner_radius |-> 0,
                  circle |-> FALSE, split |-> TRUE]
    /\ msgs = <<>>

\* lines 60-112: the import, the first flattening, the walk and the test for
\* an empty line collection
VPCollect ==
    /\ vpPc = "collect"
    /\ \E avail \in BOOLEAN :
          LET fused == IF vopts.apply_transformations = TRUE /\ avail = TRUE
                       THEN recursiveFuseTransform(Root, parent, xform, baked)
                       ELSE [xform |-> xform, baked |-> baked]
              found == IF Len(vsel) = 0 THEN convertPath(Root)
                       ELSE convertEach(vsel)
          IN /\ applyTransformAvailable' = avail
             /\ xform' = fused.xform
             /\ baked' = fused.baked
             /\ nodesToConvert' = found
             /\ lc' = found
             /\ vbbox' = IF Len(vsel) = 0 THEN Range(found) ELSE Range(vsel)
             /\ vmsgs' = vmsgs \o (IF avail THEN <<>> ELSE <<SkipMsg>>)
                               \o (IF NoPathsFound(found) THEN <<NoPathsMsg>> ELSE <<>>)
             /\ vpPc' = IF NoPathsFound(found) THEN "returned" ELSE "optimize"
    /\ UNCHANGED <<parent, tag, doc0, vsel, vopts, vdoc, tempFile, group, curSel, stages>>
    /\ UNCHANGED bbVars

\* lines 114-151: linesort, the viewer and the statistics
VPOptimize ==
    /\ vpPc = "optimize"
    /\ \E shown \in BOOLEAN :
          /\ ~shown => vopts.output_show
          /\ vdoc' = [lines |-> Len(lc),
                      command |-> <<"linesort ">> \o
                                  (IF vopts.linesort_no_flip THEN <<" --no-flip">> ELSE <<>>)]
          /\ vmsgs' = IF shown /\ vopts.output_stats = TRUE
                      THEN vmsgs \o StatsMsgs ELSE vmsgs
          /\ vpPc' = IF shown THEN Then("optimize") ELSE "raised"
    /\ UNCHANGED <<parent, tag, xform, baked, doc0, vsel, vopts, applyTransformAvailable,
                   nodesToConvert, lc, vbbox, tempFile, group, curSel, stages>>
    /\ UNCHANGED bbVars

\* lines 153-157: open the temp file and write the document into it
VPWrite ==
    /\ vpPc = "write"
    /\ stages' = Append(stages, "write")
    /\ \E r \in {"ok", "open fails", "write fails"} :
          /\ tempFile' = IF r = "open fails" THEN tempFile ELSE "written"
          /\ vpPc' = IF r = "ok" THEN Then("write") ELSE "raised"
    /\ UNCHANGED <<parent, tag, xform, baked, doc0, vsel, vopts, applyTransformAvailable,
                   nodesToConvert, lc, vbbox, vdoc, group, curSel, vmsgs>>
    /\ UNCHANGED bbVars

\* lines 159-164: the inkscape command line converts the file in place
VPInvoke ==
    /\ vpPc = "invoke"
    /\ stages' = Append(stages, "invoke")
    /\ \E r \in {"quiet", "output", "raise"} :
          /\ tempFile' = IF r = "raise" THEN tempFile ELSE "converted"
          /\ vmsgs' = IF r = "output" THEN vmsgs \o CliMsgs ELSE vmsgs
          /\ vpPc' = IF r = "raise" THEN "raised" ELSE Then("invoke")
    /\ UNCHANGED <<parent, tag, xform, baked, doc0, vsel, vopts, applyTransformAvailable,
                   nodesToConvert, lc, vbbox, vdoc, group, curSel>>
    /\ UNCHANGED bbVars

\* lines 166-178: parse the file, add the group, move the layer's children
\* into it, translate it, name it and select it
VPSplice ==
    /\ vpPc = "splice"
    /\ stages' = Append(stages, "splice")
    /\ \E r \in {"ok", "parse error", "no layer"} :
          /\ parent' = IF r = "parse error" THEN parent
                       ELSE [parent EXCEPT ![NewGroup] = Root]
          /\ group' = CASE r = "parse error" -> group
                        [] r = "no layer" -> [NoGroup EXCEPT !.style = GroupStyle]
                        [] r = "ok" -> [style |-> GroupStyle, children |-> vdoc.lines,
                                        translate |-> vbbox, id |-> "vpypetools-"]
          /\ xform' = IF r = "ok" THEN xform \cup {NewGroup} ELSE xform
          /\ curSel' = IF r = "ok" THEN <<NewGroup>> ELSE curSel
          /\ vpPc' = IF r = "ok" THEN Then("splice") ELSE "raised"
    /\ UNCHANGED <<tag, baked, doc0, vsel, vopts, applyTransformAvailable,
                   nodesToConvert, lc, vbbox, vdoc, tempFile, vmsgs>>
    /\ UNCHANGED bbVars

\* lines 181-184: the flattening applied to the new selection
VPReflatten ==
    /\ vpPc = "reflatten"
    /\ IF vopts.apply_transformations /\ applyTransformAvailable
       THEN /\ stages' = Append(stages, "reflatten")
            /\ \E ok \in BOOLEAN :
                  LET fused == recursiveFuseTransform(curSel[1], parent, xform, baked)
                  IN /\ xform' = IF ok THEN fused.xform ELSE xform
                     /\ baked' = IF ok THEN fused.baked ELSE baked
                     /\ vpPc' = IF ok THEN Then("reflatten") ELSE "raised"
       ELSE /\ vpPc' = Then("reflatten")
            /\ UNCHANGED <<stages, xform, baked>>
    /\ UNCHANGED <<parent, tag, doc0, vsel, vopts, applyTransformAvailable,
                   nodesToConvert, lc, vbbox, vdoc, tempFile, group, curSel, vmsgs>>
    /\ UNCHANGED bbVars

\* lines 186-188: delete the temp file if it exists
VPDelete ==
    /\ vpPc = "delete"
    /\ stages' = Append(stages, "delete")
    /\ IF tempFile # "absent"
       THEN \E ok \in BOOLEAN :
               /\ tempFile' = IF ok THEN RemoveFile(tempFile) ELSE tempFile
               /\ vpPc' = IF ok THEN Then("delete") ELSE "raised"
       ELSE /\ vpPc' = Then("delete")
            /\ UNCHANGED tempFile
    /\ UNCHANGED <<parent, tag, xform, baked, doc0, vsel, vopts, applyTransformAvailable,
                   nodesToConvert, lc, vbbox, vdoc, group, curSel, vmsgs>>
    /\ UNCHANGED bbVars

\* lines 190-193: remove the collected nodes unless keep_selection
VPRemove ==
    /\ vpPc = "remove"
    /\ IF vopts.keep_selection = FALSE
       THEN LET res == RemoveEach(nodesToConvert, parent)
            IN /\ stages' = Append(stages, "remove")
               /\ parent' = res.parent
               /\ vpPc' = IF res.ok THEN Then("remove") ELSE "raised"
       ELSE /\ vpPc' = Then("remove")
            /\ UNCHANGED <<stages, parent>>
    /\ UNCHANGED <<tag, xform, baked, doc0, vsel, vopts, applyTransformAvailable,
                   nodesToConvert, lc, vbbox, vdoc, tempFile, group, curSel, vmsgs>>
    /\ UNCHANGED bbVars

VPNext == \/ VPCollect \/ VPOptimize \/ VPWrite \/ VPInvoke
          \/ VPSplice \/ VPReflatten \/ VPDelete \/ VPRemove

----------------------------------------------------------------------------
\* a run of bounding_box.py
SpecBB == BBInit /\ [][BBNext]_vars

\* a run of vpypetools.py
SpecVP == VPInit /\ [][VPNext]_vars

----------------------------------------------------------------------------
(* Reading the drawn shapes back.                                          *)

DigitVal(c) == CHOOSE d \in 0..9 : DigitChars[d + 1] = c

RECURSIVE DigitsVal(_)
DigitsVal(s) == IF s = <<>> THEN 0
                ELSE DigitsVal(SubSeq(s, 1, Len(s) - 1)) * 10 + DigitVal(s[Len(s)])

RECURSIVE PadRight(_, _)
PadRight(s, n) == IF Len(s) >= n THEN s ELSE PadRight(Append(s, "0"), n)

\* the number a decimal string denotes, in units of 1/Unit
ParseFloat(s) ==
    LET neg  == s[1] = "-"
        body == IF neg THEN Tail(s) ELSE s
        dot  == CHOOSE i \in 1..Len(body) : body[i] = "."
        ip   == DigitsVal(SubSeq(body, 1, dot - 1))
        fp   == DigitsVal(PadRight(SubSeq(body, dot + 1, Len(body)), 4))
        a    == ip * Unit + (fp * Unit) \div 10000
    IN IF neg THEN -a ELSE a

Appended == SubSeq(layer, Len(layer0) + 1, Len(layer))
IsRect(e) == e.tag = "rect"
IsCircle(e) == e.tag = "circle"
Rects == SelectSeq(Appended, IsRect)
Circles == SelectSeq(Appended, IsCircle)

MinOf(S) == CHOOSE m \in S : \A x \in S : m <= x
MaxOf(S) == CHOOSE m \in S : \A x \in S : m >= x

\* the bounding box of the whole selection, from the selected elements' edges
Hull ==
    LET B == {layer0[selected[i]].bbox : i \in 1..Len(selected)}
        l == MinOf({b.left : b \in B})
        t == MinOf({b.top : b \in B})
    IN [left |-> l, top |-> t,
        width |-> MaxOf({b.left + b.width : b \in B}) - l,
        height |-> MaxOf({b.top + b.height : b \in B}) - t]

\* the boxes a run draws around: the hull, or each selected element's box
DrawnFor == IF options.split THEN <<Hull>>
            ELSE [i \in 1..Len(selected) |-> layer0[selected[i]].bbox]

RectMatches(rect, b) ==
    /\ ParseFloat(rect.x) = b.left - options.offset
    /\ ParseFloat(rect.y) = b.top - options.offset
    /\ ParseFloat(rect.width) = b.width + 2 * options.offset
    /\ ParseFloat(rect.height) = b.height + 2 * options.offset

DrewSomething == bbPc = "done" /\ Len(selected) > 0

\* C1 (as amended): with box=true and a non-empty selection, one rectangle is
\* drawn per bounding box of the run (the selection's box when split is true,
\* each selected element's box when split is false), and each rectangle has
\* x = left - offset, y = top - offset, width = width + 2*offset and
\* height = height + 2*offset of the box it was drawn for.
C1_RectPerDrawnBox ==
    (DrewSomething /\ options.box) =>
        /\ Len(Rects) = Len(DrawnFor)
        /\ \A i \in 1..Len(Rects) : RectMatches(Rects[i], DrawnFor[i])

\* C1 (as stated): every drawn rectangle is the selection's bounding box
\* expanded by the offset.
C1_RectIsSelectionBox ==
    (DrewSomething /\ options.box) =>
        /\ Len(Rects) > 0
        /\ \A i \in 1..Len(Rects) : RectMatches(Rects[i], Hull)

\* the spec's example: a square of side 10 at the origin, offset 2
C1_Witness ==
    /\ DrewSomething /\ options.box /\ options.offset = U(2)
    /\ Len(selected) = 1
    /\ layer0[selected[1]].bbox = [left |-> 0, top |-> 0, width |-> U(10), height |-> U(10)]
    /\ Len(Rects) = 1
    /\ Rects[1].x = <<"-", "2", ".", "0">> /\ Rects[1].y = <<"-", "2", ".", "0">>
    /\ Rects[1].width = <<"1", "4", ".", "0">> /\ Rects[1].height = <<"1", "4", ".", "0">>

\* the square of the offset-expanded box's diagonal, in units of 1/Unit^2
Diag2(b) ==
    (b.width + 2 * options.offset) * (b.width + 2 * options.offset)
    + (b.height + 2 * options.offset) * (b.height + 2 * options.offset)

Centered(c, b) ==
    /\ 2 * ParseFloat(c.cx) = 2 * b.left + b.width
    /\ 2 * ParseFloat(c.cy) = 2 * b.top + b.height

\* C2 (as amended): every circle is centered on the center of the box it was
\* drawn for, and its diameter 2r is the square root of
\* (width + 2*offset)^2 + (height + 2*offset)^2 as math.sqrt returns it: the
\* representable number nearest to the root, so (2r)^2 equals the sum only
\* when the root is representable.
C2_CircleRoundedDiagonal ==
    (DrewSomething /\ options.circle) =>
        /\ Len(Circles) = Len(DrawnFor)
        /\ \A i \in 1..Len(Circles) :
              LET d == 2 * ParseFloat(Circles[i].r)
                  x == Diag2(DrawnFor[i])
              IN /\ Centered(Circles[i], DrawnFor[i])
                 /\ d >= 0
                 /\ \/ d * d = x
                    \/ (d - 1) * (d - 1) < x /\ x < (d + 1) * (d + 1)

\* C2 (as stated): (2r)^2 = (width + 2*offset)^2 + (height + 2*offset)^2,
\* exactly, for every circle.
C2_CircleExactDiagonal ==
    (DrewSomething /\ options.circle) =>
        \A i \in 1..Len(Circles) :
            /\ Centered(Circles[i], DrawnFor[i])
            /\ (2 * ParseFloat(Circles[i].r)) * (2 * ParseFloat(Circles[i].r))
                   = Diag2(DrawnFor[i])

\* a 3 x 4 box at (1, 2), offset 0: the circle is at (2.5, 4) with r = 2.5
C2_Witness ==
    /\ DrewSomething /\ options.circle /\ options.offset = 0
    /\ Len(selected) = 1
    /\ layer0[selected[1]].bbox = [left |-> U(1), top |-> U(2), width |-> U(3), height |-> U(4)]
    /\ Len(Circles) = 1
    /\ Circles[1].cx = <<"2", ".", "5">> /\ Circles[1].cy = <<"4", ".", "0">>
    /\ Circles[1].r = <<"2", ".", "5">>

\* C3: on an empty selection, whatever the options, effect() prints the error
\* message and leaves the layer as it was: no rect, no circle.
C3_EmptySelectionNoMutation ==
    (bbPc = "done" /\ Len(selected) = 0) =>
        /\ msgs = <<NoSelectionMsg>>
        /\ layer = layer0

C3_Witness ==
    /\ bbPc = "done" /\ Len(selected) = 0
    /\ options.box /\ options.circle /\ Len(layer0) > 0
    /\ msgs # <<>>

Flag(b) == IF b THEN 1 ELSE 0

\* C4: on a selection of n elements, effect() appends exactly
\* k * ((1 if box) + (1 if circle)) shapes to the layer, k = n when split is
\* false (one box per element) and k = 1 when split is true (one box for the
\* selection); what was in the layer stays as it was and nothing is reported.
C4_ShapeCount ==
    DrewSomething =>
        LET k == IF options.split THEN 1 ELSE Len(selected)
        IN /\ Len(layer) = Len(layer0) + k * (Flag(options.box) + Flag(options.circle))
           /\ Len(Rects) = k * Flag(options.box)
           /\ Len(Circles) = k * Flag(options.circle)
           /\ SubSeq(layer, 1, Len(layer0)) = layer0
           /\ msgs = <<>>

C4_Witness ==
    /\ DrewSomething /\ ~options.split /\ Len(selected) = 2
    /\ options.box /\ options.circle
    /\ Len(layer) = Len(layer0) + 4

----------------------------------------------------------------------------
(* vpypetools.py: the claims                                               *)

Last(s) == s[Len(s)]

\* C5: when the walk collects no path element, the run prints the error
\* message and returns before linesort is executed, before the temp file is
\* created and before the inkscape binary is invoked.
C5_NoPathsStopsEarly ==
    (vpPc # "collect" /\ nodesToConvert = <<>>) =>
        /\ vpPc = "returned"
        /\ NoPathsMsg \in Range(vmsgs)
        /\ vdoc = NoDoc
        /\ tempFile = "absent"
        /\ stages = <<>>

\* a selection without paths in a document that has paths
C5_Witness ==
    /\ vpPc = "returned" /\ nodesToConvert = <<>>
    /\ vsel # <<>>
    /\ \E n \in DocNodes : tag[n] = "path"
    /\ Last(vmsgs) = NoPathsMsg

\* C6: a run that ends on "no path elements found" leaves the document tree
\* as it was, whatever the options.
C6_AbortLeavesTreeUnchanged ==
    vpPc = "returned" =>
        /\ parent = doc0.parent
        /\ xform = doc0.xform
        /\ baked = doc0.baked

\* C7: after a run that reached the end of effect(), the temp file does not
\* exist, whatever keep_selection and the other options are.
C7_TempFileGoneAfterSuccess ==
    vpPc = "done" => tempFile = "absent"

C7_Witness ==
    /\ vpPc = "done" /\ tempFile = "absent"
    /\ vopts.keep_selection = FALSE /\ vopts.apply_transformations
    /\ "write" \in Range(stages) /\ "delete" \in Range(stages)

\* C8: with keep_selection false, once the removal loop has run and the run is
\* over, no collected path node is a child of its original parent, and the new
\* group with its children is in the document; with keep_selection true every
\* collected node is still in place at the end.
C8_SourcesRemoved ==
    /\ (vpPc \in {"done", "raised"} /\ stages # <<>> /\ Last(stages) = "remove") =>
          /\ \A n \in Range(nodesToConvert) : parent[n] # doc0.parent[n]
          /\ parent[NewGroup] = Root
          /\ group.children = Len(lc)
    /\ (vpPc = "done" /\ vopts.keep_selection) =>
          \A n \in Range(nodesToConvert) : parent[n] = doc0.parent[n]

StageOrder == <<"write", "invoke", "splice", "reflatten", "delete", "remove">>
StageIndex(st) == CHOOSE i \in 1..Len(StageOrder) : StageOrder[i] = st

\* C9: the stages run in the order write, invoke, splice, reflatten, delete,
\* remove, each at most once; the temp file is deleted by the delete stage
\* only, so a run that raises in a stage after the write and before the delete
\* leaves the file on disk, and a group that was already added stays in the
\* document.
C9_LinearPipeline ==
    /\ \A i \in 1..(Len(stages) - 1) :
          StageIndex(stages[i]) < StageIndex(stages[i + 1])
    /\ \A i \in 1..Len(stages) :
          stages[i] \in {"invoke", "splice", "delete"} =>
              i > 1 /\ StageIndex(stages[i - 1]) >= StageIndex(stages[i]) - 2
    /\ vpPc = "done" => {"write", "invoke", "splice", "delete"} \subseteq Range(stages)
    /\ (vpPc = "raised" /\ stages # <<>>
          /\ Last(stages) \in {"invoke", "splice", "reflatten"}) => tempFile # "absent"
    /\ (tempFile = "absent" /\ "invoke" \in Range(stages)) => "delete" \in Range(stages)
    /\ (vpPc = "raised" /\ group # NoGroup) => parent[NewGroup] = Root

\* the converted file has no layer labelled 1: line 171 raises after the
\* group was added, and the file stays
C9_Witness ==
    /\ vpPc = "raised" /\ stages # <<>> /\ Last(stages) = "splice"
    /\ tempFile = "converted"
    /\ group # NoGroup /\ parent[NewGroup] = Root

\* C10: the walk records each path node at most once, so the removal loop
\* removes every collected node once and ends without an error.
C10_CollectedOnce ==
    /\ \A i, j \in 1..Len(nodesToConvert) :
          i # j => nodesToConvert[i] # nodesToConvert[j]
    /\ (stages # <<>> /\ Last(stages) = "remove") => vpPc # "raised"

====
